---- MODULE Spec2Model ----
(***************************************************************************)
(* A model of bedrock-leveldb: the safe wrappers (Options, ReadOptions,    *)
(* WriteOptions, DB, DBIterator, WriteBatch) over the foreign LevelDB C    *)
(* API.  The wrappers are modelled from the Rust source; the foreign       *)
(* engine behind the `sys::leveldb_*` calls is modelled from its interface *)
(* contract (the Eng_* operators).  Rust's ownership rules appear as the   *)
(* guards of the actions: a value is used only while it is alive, is       *)
(* dropped once, and is not dropped while a borrow of it is alive.         *)
(***************************************************************************)
EXTENDS Integers, Sequences, FiniteSets, TLC

\* ------------------------------------------------------------------ bounds

\* the most operations buffered in a write batch
MaxBatchLen == 2
\* the most engine snapshots taken in a run
MaxSnaps == 2

\* ------------------------------------------------------------------ data

\* byte strings used as keys and values (the empty string included)
Keys == {<<>>, <<1>>, <<1, 2>>, <<2>>}
Values == {<<>>, <<1>>}
\* the smaller key set used where the state holds several copies of the contents
FewKeys == {<<>>, <<1>>}
\* seek targets: the keys, one between two keys, one above every key
Targets == Keys \cup {<<0>>, <<3>>}
\* bounds of compact_range: None, or Some key
Bounds == {<<>>} \cup {<<k>> : k \in {<<>>, <<1>>, <<2>>}}
\* paths: 0 is the NUL byte
Paths == {<<7>>, <<7, 0, 8>>}

\* Option<T>
None == <<>>
Some(x) == <<x>>

\* Result<T, String>
Ok(x) == [ok |-> TRUE, val |-> x, err |-> ""]
Err(msg) == [ok |-> FALSE, val |-> None, err |-> msg]
Unit == None

\* the wrapper objects of a run; each owns the foreign handle of the same name
Iters == {"DBIterator1", "DBIterator2"}
W == {"Options", "ReadOptions", "WriteOptions", "DB", "WriteBatch"} \cup Iters
\* a second database, opened at another path by the same program
Others == {"DB2"}

\* database contents: key -> Option<value>
Contents == [Keys -> {None} \cup {Some(v) : v \in Values}]
EmptyDB == [k \in Keys |-> None]

\* a pointer and a length denote the bytes [ptr, ptr + len)
Slice(buf, len) == SubSeq(buf, 1, len)

\* history of a traversal.  dir: how the iterator was last positioned ("new":
\* not yet; "fwd": seek_to_first; "bwd": seek_to_last; "seek"; "none": the
\* traversal left its direction; "off": no history is kept in this run);
\* seen: the entries key() and value() showed at the positions of the
\* traversal; got: the pairs next() and prev() returned; by: the stepping
\* operation used ("" none yet, "mixed" more than one); turn: the position a
\* forward step left (n = 1) and a backward step right after it was to return
\* to (n = 2)
NoTurn == [from |-> <<>>, n |-> 0]
\* the next() calls since the last other call on the iterator: how many
\* returned an entry, and whether one has returned None
NoRun == [n |-> 0, done |-> FALSE]
NewWalk == [dir |-> "new", seen |-> <<>>, got |-> <<>>, by |-> "", turn |-> NoTurn,
            run |-> NoRun]
NoWalk == [dir |-> "off", seen |-> <<>>, got |-> <<>>, by |-> "", turn |-> NoTurn,
           run |-> NoRun]
LostWalk == [dir |-> "none", seen |-> <<>>, got |-> <<>>, by |-> "", turn |-> NoTurn,
             run |-> NoRun]

\* no WriteBatch::write call is running
Idle == [active |-> FALSE, calls |-> <<>>, before |-> <<>>]

VARIABLES
    wrap,      \* wrapper -> "none" | "alive" | "dropped"  (the Rust values)
    borrow,    \* the iterators whose lifetime 'db borrows the DB
    allocd,    \* the foreign handles the engine has created
    frees,     \* foreign handle -> number of destroy/close calls made on it
    cim,       \* the foreign options' create_if_missing
    disk,      \* a database exists at the path
    store,     \* the engine's current contents
    rsnap,     \* the snapshot the foreign read options point to: Option<contents>
    nsnaps,    \* engine snapshots created and not released
    batchrep,  \* the foreign write batch's buffered operations
    pending,   \* history: the operations added through WriteBatch since new/clear
    it_view,   \* iterator -> the contents it iterates over
    it_pos,    \* iterator -> Option<key>: the entry it is positioned at
    faults,    \* foreign calls made outside their preconditions
    last,      \* history: the most recent wrapper call and what it returned
    pre,       \* history: the engine's contents before the most recent call
    expect,    \* history: the contents the successful put/delete calls add up to
    snapexpect,\* history: Option<expect as it was when snapshot() was last called>
    it_expect, \* history: iterator -> the contents expected of it at its creation
    cleared,   \* history: clear() was called on the write batch
    walk,      \* history: iterator -> its traversal since the last positioning call
    inflight   \* the WriteBatch::write call a thread is in: its foreign calls to come

vars == <<wrap, borrow, allocd, frees, cim, disk, store, rsnap, nsnaps,
          batchrep, pending, it_view, it_pos, faults, last, pre, expect,
          snapexpect, it_expect, cleared, walk, inflight>>

lifeVars == <<wrap, borrow, allocd, frees>>
optVars == <<cim, rsnap, nsnaps, snapexpect>>
batchVars == <<batchrep, pending, cleared>>
iterVars == <<it_view, it_pos, it_expect, walk>>

\* a call, what it returned, and whether the engine signalled a failure in it
CallF(op, key, val, opt, res, fail) ==
    [op |-> op, key |-> key, val |-> val, opt |-> opt, res |-> res, fail |-> fail]

Call(op, key, val, opt, res) == CallF(op, key, val, opt, res, FALSE)

Alive(w) == wrap[w] = "alive"

\* ------------------------------------------------------------------ engine

\* a handle the engine may be called with
Eng_live(h) == h \in allocd /\ frees[h] = 0

\* leveldb_*_create / leveldb_open / leveldb_create_iterator: a new handle
Eng_create(h) == allocd \cup {h}

\* leveldb_*_destroy / leveldb_close: one more release of h
Eng_destroy(h) == [frees EXCEPT ![h] = IF @ < 2 THEN @ + 1 ELSE @]

Eng_destroy_faults(h) == IF Eng_live(h) THEN {} ELSE {"double_free"}

\* a foreign iterator call is within its precondition while the iterator and the
\* database it reads are both live
Eng_iter_faults(i) ==
    IF Eng_live(i) /\ Eng_live("DB") THEN {} ELSE {"iterator used after close"}

\* leveldb_open: (db | null, err?)
Eng_open(create, exists, fail) ==
    IF fail THEN [db |-> "null", err |-> Some("IO error: LOCK")]
    ELSE IF ~exists /\ ~create
    THEN [db |-> "null",
          err |-> Some("Invalid argument: does not exist (create_if_missing is false)")]
    ELSE [db |-> "DB", err |-> None]

\* what a read sees: the snapshot in the read options, or the current contents
Eng_view(snapshot) == IF snapshot = None THEN store ELSE snapshot[1]

\* leveldb_get: (val_ptr | null, val_len, err?)
\* a snapshot passed in read options is an unreleased snapshot of the database
\* that is read, so of a database that is still open
Eng_snapshot_faults(snapshot, of, h) ==
    IF snapshot = None THEN {}
    ELSE IF ~Eng_live(of) THEN {"snapshot of a closed database"}
    ELSE IF of # h THEN {"snapshot of another database"}
    ELSE {}

\* what leveldb_get may return for a database without entries: nothing, unless
\* the read options carry a pointer the engine must not be given
Eng_get_outcomes(snapshot, of, h) ==
    IF Eng_snapshot_faults(snapshot, of, h) = {}
    THEN {[ptr |-> "null", buf |-> <<>>, len |-> 0, err |-> None]}
    ELSE {[ptr |-> "null", buf |-> <<>>, len |-> 0, err |-> None]}
         \cup {[ptr |-> "buf", buf |-> v, len |-> Len(v), err |-> None] : v \in Values}
         \cup {[ptr |-> "null", buf |-> <<>>, len |-> 0, err |-> Some("Corruption")]}

Eng_get(snapshot, key, fail) ==
    IF fail THEN [ptr |-> "null", buf |-> <<>>, len |-> 0, err |-> Some("Corruption")]
    ELSE LET v == Eng_view(snapshot)[key] IN
         IF v = None THEN [ptr |-> "null", buf |-> <<>>, len |-> 0, err |-> None]
         ELSE [ptr |-> "buf", buf |-> v[1], len |-> Len(v[1]), err |-> None]

\* one buffered operation applied to contents
Eng_apply(c, o) ==
    IF o.t = "put" THEN [c EXCEPT ![o.k] = Some(o.v)] ELSE [c EXCEPT ![o.k] = None]

RECURSIVE Eng_applyAll(_, _)
Eng_applyAll(c, ops) ==
    IF ops = <<>> THEN c ELSE Eng_applyAll(Eng_apply(c, Head(ops)), Tail(ops))

\* leveldb_put / leveldb_delete / leveldb_write: all of ops or, on failure, none
Eng_write(c, ops, fail) ==
    IF fail THEN [contents |-> c, err |-> Some("IO error")]
    ELSE [contents |-> Eng_applyAll(c, ops), err |-> None]

\* leveldb's default comparator: byte-lexicographic order
RECURSIVE BytewiseLess(_, _)
BytewiseLess(a, b) ==
    IF b = <<>> THEN FALSE
    ELSE IF a = <<>> THEN TRUE
    ELSE IF Head(a) # Head(b) THEN Head(a) < Head(b)
    ELSE BytewiseLess(Tail(a), Tail(b))

BytewiseLeq(a, b) == a = b \/ BytewiseLess(a, b)

\* the keys present in contents
KeysOf(c) == {k \in Keys : c[k] # None}

\* the least and the greatest key of a set, as Option<key>
Least(S) == IF S = {} THEN None ELSE Some(CHOOSE k \in S : \A j \in S : BytewiseLeq(k, j))
Greatest(S) == IF S = {} THEN None ELSE Some(CHOOSE k \in S : \A j \in S : BytewiseLeq(j, k))

\* leveldb_iter_seek_to_first, _seek_to_last, _seek: the new position
Eng_seek_to_first(view) == Least(KeysOf(view))
Eng_seek_to_last(view) == Greatest(KeysOf(view))
Eng_seek(view, target) == Least({k \in KeysOf(view) : BytewiseLeq(target, k)})

\* leveldb_iter_next, _prev on a valid iterator: the new position
Eng_next(view, pos) == Least({k \in KeysOf(view) : BytewiseLess(pos[1], k)})
Eng_prev(view, pos) == Greatest({k \in KeysOf(view) : BytewiseLess(k, pos[1])})

\* leveldb_iter_next and _prev require a valid iterator; on an invalid one the
\* engine's behaviour is undefined: any position may result
Eng_step_outcomes(view, pos, stepped) ==
    IF pos # None THEN {stepped} ELSE {None} \cup {Some(k) : k \in KeysOf(view)}

Eng_step_faults(pos) == IF pos # None THEN {} ELSE {"step of an invalid iterator"}

\* the entries a loop of valid / key / value / next_native yields from pos on
RECURSIVE Scan(_, _)
Scan(view, pos) ==
    IF pos = None THEN <<>>
    ELSE <<<<pos[1], view[pos[1]][1]>>>> \o Scan(view, Eng_next(view, pos))

\* what seek_to_first and that loop yield on a new iterator over contents c
FullScan(c) == Scan(c, Eng_seek_to_first(c))

\* leveldb_compact_range: the files are rewritten, the contents stay
Eng_compact_range(c, start, limit) == c

PutOp(k, v) == [t |-> "put", k |-> k, v |-> v]
DelOp(k) == [t |-> "del", k |-> k, v |-> <<>>]

\* ------------------------------------------------------------------ util.rs

\* what a wrapper function does with one engine-allocated buffer, in order
\* error_message without the leveldb_free
error_message_events_no_free(err) == <<"copy">>

\* error_message: CStr::from_ptr(..).to_string_lossy().into_owned(), then
\* leveldb_free
error_message_events(err) == <<"copy", "free">>

\* the faults in the handling of a buffer the engine handed out
BufFaults(events) ==
    LET fr == {n \in 1..Len(events) : events[n] = "free"}
        cp == {n \in 1..Len(events) : events[n] = "copy"}
    IN  (IF fr = {} THEN {"buffer not freed"} ELSE {})
        \cup (IF Cardinality(fr) > 1 THEN {"buffer freed twice"} ELSE {})
        \cup (IF \E c \in cp, f \in fr : f < c THEN {"buffer read after free"} ELSE {})

\* error_message reading the buffer after it was freed: nothing is left of it
error_message_after_free(err) == IF err = None THEN "unknown error" ELSE ""

error_message(err) == IF err = None THEN "unknown error" ELSE err[1]

to_cstring(s) == IF \E i \in 1..Len(s) : s[i] = 0 THEN None ELSE Some(s \o <<0>>)

\* ------------------------------------------------------------------ Init

Init ==
    /\ wrap = [w \in W \cup Others |-> "none"]
    /\ borrow = {}
    /\ allocd = {}
    /\ frees = [w \in W \cup Others |-> 0]
    /\ cim = FALSE
    /\ disk = FALSE
    /\ store = EmptyDB
    /\ rsnap = None
    /\ nsnaps = 0
    /\ batchrep = <<>>
    /\ pending = <<>>
    /\ it_view = [i \in Iters |-> EmptyDB]
    /\ it_pos = [i \in Iters |-> None]
    /\ faults = {}
    /\ last = Call("init", <<>>, <<>>, "", Ok(Unit))
    /\ pre = EmptyDB
    /\ expect = EmptyDB
    /\ snapexpect = None
    /\ it_expect = [i \in Iters |-> EmptyDB]
    /\ cleared = FALSE
    /\ inflight = Idle
    /\ walk = [i \in Iters |-> NoWalk]

\* ------------------------------------------------------------------ options.rs

\* a wrapper constructor: the foreign create call and the new Rust value
New(w) ==
    /\ wrap[w] = "none"
    /\ wrap' = [wrap EXCEPT ![w] = "alive"]
    /\ allocd' = Eng_create(w)

\* Drop without the foreign destroy call
Drop_forgets(w) ==
    /\ Alive(w)
    /\ wrap' = [wrap EXCEPT ![w] = "dropped"]
    /\ UNCHANGED <<frees, faults>>

\* a wrapper's Drop: one foreign destroy call on self.raw
Drop(w) ==
    /\ Alive(w)
    /\ wrap' = [wrap EXCEPT ![w] = "dropped"]
    /\ frees' = Eng_destroy(w)
    /\ faults' = faults \cup Eng_destroy_faults(w)
                        \cup (IF w \in Iters THEN Eng_iter_faults(w) ELSE {})

Options_new ==
    /\ New("Options")
    /\ cim' = FALSE
    /\ last' = Call("Options::new", <<>>, <<>>, "", Ok(Unit))
    /\ UNCHANGED inflight
    /\ UNCHANGED <<borrow, frees, disk, store, rsnap, nsnaps, snapexpect, batchVars,
                   iterVars, faults, pre, expect>>

Options_create_if_missing(value) ==
    /\ Alive("Options")
    /\ cim' = value
    /\ last' = Call("create_if_missing", <<>>, <<>>, "", Ok(Unit))
    /\ UNCHANGED inflight
    /\ UNCHANGED <<lifeVars, disk, store, rsnap, nsnaps, snapexpect, batchVars,
                   iterVars, faults, pre, expect>>

Options_drop ==
    /\ Drop("Options")
    /\ last' = Call("drop Options", <<>>, <<>>, "", Ok(Unit))
    /\ UNCHANGED inflight
    /\ UNCHANGED <<borrow, allocd, optVars, disk, store, batchVars, iterVars, pre, expect>>

ReadOptions_new ==
    /\ New("ReadOptions")
    /\ rsnap' = None
    /\ snapexpect' = None
    /\ last' = Call("ReadOptions::new", <<>>, <<>>, "", Ok(Unit))
    /\ UNCHANGED inflight
    /\ UNCHANGED <<borrow, frees, cim, disk, store, nsnaps, batchVars, iterVars,
                   faults, pre, expect>>

\* AsSnapshot for DB: leveldb_create_snapshot(self.raw())
DB_as_snapshot_ptr == Some(store)

\* snapshot() that takes the snapshot and does not set it on the read options
ReadOptions_snapshot_unset ==
    /\ Alive("ReadOptions") /\ Alive("DB")
    /\ nsnaps < MaxSnaps
    /\ UNCHANGED rsnap
    /\ nsnaps' = nsnaps + 1
    /\ snapexpect' = Some(expect)
    /\ pre' = store
    /\ last' = Call("snapshot", <<>>, <<>>, "", Ok(Unit))
    /\ UNCHANGED inflight
    /\ UNCHANGED <<lifeVars, cim, disk, store, batchVars, iterVars, faults, expect>>

\* ReadOptions::snapshot(&db)
ReadOptions_snapshot ==
    /\ Alive("ReadOptions") /\ Alive("DB")
    /\ nsnaps < MaxSnaps
    /\ rsnap' = DB_as_snapshot_ptr
    /\ nsnaps' = nsnaps + 1
    /\ snapexpect' = Some(expect)
    /\ pre' = store
    /\ last' = Call("snapshot", <<>>, <<>>, "", Ok(Unit))
    /\ UNCHANGED inflight
    /\ UNCHANGED <<lifeVars, cim, disk, store, batchVars, iterVars, faults, expect>>

ReadOptions_drop ==
    /\ Drop("ReadOptions")
    /\ last' = Call("drop ReadOptions", <<>>, <<>>, "", Ok(Unit))
    /\ UNCHANGED inflight
    /\ UNCHANGED <<borrow, allocd, optVars, disk, store, batchVars, iterVars, pre, expect>>

WriteOptions_new ==
    /\ New("WriteOptions")
    /\ last' = Call("WriteOptions::new", <<>>, <<>>, "", Ok(Unit))
    /\ UNCHANGED inflight
    /\ UNCHANGED <<borrow, frees, optVars, disk, store, batchVars, iterVars,
                   faults, pre, expect>>

WriteOptions_drop ==
    /\ Drop("WriteOptions")
    /\ last' = Call("drop WriteOptions", <<>>, <<>>, "", Ok(Unit))
    /\ UNCHANGED inflight
    /\ UNCHANGED <<borrow, allocd, optVars, disk, store, batchVars, iterVars, pre, expect>>

\* ------------------------------------------------------------------ db.rs

\* the kind of a result of DB::open: its type is Result<DB, String>, so every
\* failure is a String and has no kind beyond that
ErrorKind(res) == IF res.ok THEN "Ok" ELSE "String"

\* DB::open and the error buffer of leveldb_open
open_buffers(r) == IF r.err # None THEN BufFaults(error_message_events(r.err)) ELSE {}

\* DB::open(path, &options).  The history notes in opt whether leveldb_open
\* was called.
DB_open(path, fail) ==
    /\ wrap["DB"] = "none" /\ Alive("Options")
    /\ LET cpath == to_cstring(path)
           r == Eng_open(cim, disk, fail)
       IN  IF cpath = None
           THEN /\ last' = CallF("open", path, <<>>, "",
                                 Err("invalid path: contains null byte"), fail)
                /\ UNCHANGED <<wrap, allocd, disk>>
           ELSE IF r.err # None
           THEN /\ last' = CallF("open", path, <<>>, "leveldb_open",
                                 Err(error_message(r.err)), fail)
                /\ UNCHANGED <<wrap, allocd, disk>>
           ELSE IF r.db = "null"
           THEN /\ last' = CallF("open", path, <<>>, "leveldb_open",
                                 Err("failed to open database"), fail)
                /\ UNCHANGED <<wrap, allocd, disk>>
           ELSE /\ last' = CallF("open", path, <<>>, "leveldb_open", Ok(Unit), fail)
                /\ wrap' = [wrap EXCEPT !["DB"] = "alive"]
                /\ allocd' = Eng_create(r.db)
                /\ disk' = TRUE
    /\ faults' = faults \cup
           (IF to_cstring(path) # None THEN open_buffers(Eng_open(cim, disk, fail)) ELSE {})
    /\ UNCHANGED inflight
    /\ UNCHANGED <<borrow, frees, optVars, store, batchVars, iterVars, pre, expect>>

\* the snapshot pointer the read options passed to a call carry: the ReadOptions
\* value of the run ("ro"), or a fresh ReadOptions::default() ("default")
OptSnapshot(opt) == IF opt = "ro" THEN rsnap ELSE None

\* DB::get taking a zero-length value for a missing one
get_result_empty_is_none(r) ==
    IF r.err # None THEN Err(error_message(r.err))
    ELSE IF r.ptr = "null" \/ r.len = 0 THEN Ok(None)
    ELSE Ok(Some(Slice(r.buf, r.len)))

\* DB::get reporting a null value pointer as an error
get_result_null_is_err(r) ==
    IF r.err # None THEN Err(error_message(r.err))
    ELSE IF r.ptr = "null" THEN Err("not found")
    ELSE Ok(Some(Slice(r.buf, r.len)))

\* DB::get, after the foreign call: the error, the null pointer, the copied value
get_result(r) ==
    IF r.err # None THEN Err(error_message(r.err))
    ELSE IF r.ptr = "null" THEN Ok(None)
    ELSE Ok(Some(Slice(r.buf, r.len)))

\* DB::get and the buffers of leveldb_get: the error message goes through
\* error_message; the value is copied by to_vec() and freed by leveldb_free,
\* unless the function has returned before
get_buffers(r) ==
    (IF r.err # None THEN BufFaults(error_message_events(r.err)) ELSE {})
    \cup (IF r.ptr # "null"
          THEN BufFaults(IF r.err # None THEN <<>> ELSE <<"copy", "free">>) ELSE {})

\* what DB::get(key, options) returns in the current state
DB_get_value(key, opt, fail) ==
    get_result(Eng_get(OptSnapshot(opt), Slice(key, Len(key)), fail))

\* DB::get(key, &options)
DB_get(key, opt, fail) ==
    /\ Alive("DB")
    /\ opt = "ro" => Alive("ReadOptions")
    /\ last' = CallF("get", key, <<>>, opt, DB_get_value(key, opt, fail), fail)
    /\ pre' = store
    /\ faults' = faults \cup get_buffers(Eng_get(OptSnapshot(opt), Slice(key, Len(key)), fail))
    /\ UNCHANGED inflight
    /\ UNCHANGED <<lifeVars, optVars, disk, store, batchVars, iterVars, expect>>

\* a write that never looks at the error out-parameter
write_result_ignores_err(err) == Ok(Unit)

\* put, delete, write after the foreign call: the error or success
write_result(err) == IF err # None THEN Err(error_message(err)) ELSE Ok(Unit)

\* put, delete, write and the error buffer of the foreign call
write_buffers(err) == IF err # None THEN BufFaults(error_message_events(err)) ELSE {}

\* put passing key.len() as the length of the value
put_args_keylen(key, value) ==
    PutOp(Slice(key, Len(key)),
          Slice(value, IF Len(key) < Len(value) THEN Len(key) ELSE Len(value)))

\* the key and value slices DB::put and WriteBatch::put hand to the engine
put_args(key, value) == PutOp(Slice(key, Len(key)), Slice(value, Len(value)))

\* the key slice DB::delete and WriteBatch::delete hand to the engine
delete_args(key) == DelOp(Slice(key, Len(key)))

\* DB::put(key, value, &options)
DB_put(key, value, fail) ==
    /\ Alive("DB") /\ Alive("WriteOptions")
    /\ LET r == Eng_write(store, <<put_args(key, value)>>, fail)
           res == write_result(r.err)
       IN  /\ store' = r.contents
           /\ last' = CallF("put", key, value, "", res, fail)
           /\ faults' = faults \cup write_buffers(r.err)
           /\ expect' = IF res.ok THEN [expect EXCEPT ![key] = Some(value)] ELSE expect
    /\ pre' = store
    /\ UNCHANGED inflight
    /\ UNCHANGED <<lifeVars, optVars, disk, batchVars, iterVars>>

\* DB::delete(key, &options)
DB_delete(key, fail) ==
    /\ Alive("DB") /\ Alive("WriteOptions")
    /\ LET r == Eng_write(store, <<delete_args(key)>>, fail)
           res == write_result(r.err)
       IN  /\ store' = r.contents
           /\ last' = CallF("delete", key, <<>>, "", res, fail)
           /\ faults' = faults \cup write_buffers(r.err)
           /\ expect' = IF res.ok THEN [expect EXCEPT ![key] = None] ELSE expect
    /\ pre' = store
    /\ UNCHANGED inflight
    /\ UNCHANGED <<lifeVars, optVars, disk, batchVars, iterVars>>

\* a bound of compact_range as handed to the engine: (null, 0) for None, the
\* bytes of the slice for Some
range_arg(bound) == IF bound = None THEN None ELSE Some(Slice(bound[1], Len(bound[1])))

\* DB::compact_range(start, limit)
DB_compact_range(start, limit) ==
    /\ Alive("DB")
    /\ store' = Eng_compact_range(store, range_arg(start), range_arg(limit))
    /\ pre' = store
    /\ last' = Call("compact_range", range_arg(start), range_arg(limit), "", Ok(Unit))
    /\ UNCHANGED inflight
    /\ UNCHANGED <<lifeVars, optVars, disk, batchVars, iterVars, faults, expect>>

\* flush() compacting the empty range between two empty keys
DB_flush_empty_range ==
    /\ Alive("DB")
    /\ store' = Eng_compact_range(store, range_arg(Some(<<>>)), range_arg(Some(<<>>)))
    /\ pre' = store
    /\ last' = Call("flush", range_arg(Some(<<>>)), range_arg(Some(<<>>)), "", Ok(Unit))
    /\ UNCHANGED inflight
    /\ UNCHANGED <<lifeVars, optVars, disk, batchVars, iterVars, faults, expect>>

\* DB::flush(): self.compact_range(None, None)
DB_flush ==
    /\ Alive("DB")
    /\ store' = Eng_compact_range(store, range_arg(None), range_arg(None))
    /\ pre' = store
    /\ last' = Call("flush", range_arg(None), range_arg(None), "", Ok(Unit))
    /\ UNCHANGED inflight
    /\ UNCHANGED <<lifeVars, optVars, disk, batchVars, iterVars, faults, expect>>

\* Drop for DB: leveldb_close.  The borrow checker lets the DB go only when
\* no value borrowing it is alive.
\* DB::open and DB::get on the second database, whose directory is new and
\* which is never written; the read options are the ones used with the first
DB_open_second(path) ==
    /\ wrap["DB2"] = "none" /\ Alive("Options")
    /\ LET cpath == to_cstring(path)
           r == Eng_open(cim, FALSE, FALSE)
       IN  IF cpath = None
           THEN /\ last' = Call("open", path, <<>>, "",
                                Err("invalid path: contains null byte"))
                /\ UNCHANGED <<wrap, allocd>>
           ELSE IF r.err # None
           THEN /\ last' = Call("open", path, <<>>, "leveldb_open",
                                Err(error_message(r.err)))
                /\ UNCHANGED <<wrap, allocd>>
           ELSE /\ last' = Call("open", path, <<>>, "leveldb_open", Ok(Unit))
                /\ wrap' = [wrap EXCEPT !["DB2"] = "alive"]
                /\ allocd' = Eng_create("DB2")
    /\ faults' = faults \cup
           (IF to_cstring(path) # None THEN open_buffers(Eng_open(cim, FALSE, FALSE))
            ELSE {})
    /\ UNCHANGED inflight
    /\ UNCHANGED <<borrow, frees, optVars, disk, store, batchVars, iterVars, pre, expect>>

DB_get_second(key) ==
    /\ Alive("DB2") /\ Alive("ReadOptions")
    /\ \E r \in Eng_get_outcomes(rsnap, "DB", "DB2") :
          /\ last' = Call("get second", key, <<>>, "ro", get_result(r))
          /\ faults' = faults \cup get_buffers(r)
                              \cup Eng_snapshot_faults(rsnap, "DB", "DB2")
    /\ pre' = store
    /\ UNCHANGED inflight
    /\ UNCHANGED <<lifeVars, optVars, disk, store, batchVars, iterVars, expect>>

DB_drop ==
    /\ borrow = {}
    /\ Drop("DB")
    /\ last' = Call("drop DB", <<>>, <<>>, "", Ok(Unit))
    /\ UNCHANGED inflight
    /\ UNCHANGED <<borrow, allocd, optVars, disk, store, batchVars, iterVars, pre, expect>>

\* ------------------------------------------------------------------ iterator.rs

\* DBIterator::valid(), key(), value() at a position: a copy of the entry's
\* bytes if valid, None otherwise
valid_at(pos) == pos # None
key_at(view, pos) == IF valid_at(pos) THEN Some(pos[1]) ELSE None

\* value() taking a zero-length value for none
value_at_empty_is_none(view, pos) ==
    IF valid_at(pos) /\ Len(view[pos[1]][1]) > 0 THEN Some(view[pos[1]][1]) ELSE None

value_at(view, pos) == IF valid_at(pos) THEN Some(view[pos[1]][1]) ELSE None

\* what key() and value() show at a position, as a sequence of at most one pair
EntryAt(view, pos) ==
    IF key_at(view, pos) # None /\ value_at(view, pos) # None
    THEN <<<<key_at(view, pos)[1], value_at(view, pos)[1]>>>> ELSE <<>>

TurnAfter(t, was, op) ==
    IF op \in {"next_native", "next"} /\ was # None THEN [from |-> was, n |-> 1]
    ELSE IF op \in {"prev_native", "prev"} /\ was # None /\ t.n = 1 THEN [t EXCEPT !.n = 2]
    ELSE NoTurn

RunAfter(r, op, res) ==
    IF op # "next" THEN NoRun
    ELSE IF res.val = None THEN [r EXCEPT !.done = TRUE]
    ELSE [r EXCEPT !.n = IF @ <= Cardinality(Keys) THEN @ + 1 ELSE @]

WalkAfter(w, view, was, p, op, res) ==
    IF w = NoWalk \/ op \in {"valid", "key", "value"} THEN w
    ELSE IF op \in {"seek_to_first", "seek_to_last", "seek"}
    THEN [dir |-> IF op = "seek_to_first" THEN "fwd"
                  ELSE IF op = "seek_to_last" THEN "bwd" ELSE "seek",
          seen |-> EntryAt(view, p), got |-> <<>>, by |-> "", turn |-> NoTurn,
          run |-> NoRun]
    ELSE LET forward == op \in {"next", "next_native"}
             returned == IF op \in {"next", "prev"} /\ res.val # None
                         THEN <<res.val[1]>> ELSE <<>>
             by == IF w.by \in {"", op} THEN op ELSE "mixed"
             turn == TurnAfter(w.turn, was, op)
             run == RunAfter(w.run, op, res)
         IN  IF was = None
             THEN IF op \in {"next", "prev"} /\ w.dir # "none"
                  THEN [w EXCEPT !.by = by, !.turn = turn, !.run = run]
                  ELSE [LostWalk EXCEPT !.run = run]
             ELSE IF (w.dir = "fwd" /\ forward) \/ (w.dir = "bwd" /\ ~forward)
             THEN [dir |-> w.dir, seen |-> w.seen \o EntryAt(view, p),
                   got |-> w.got \o returned, by |-> by, turn |-> turn, run |-> run]
             ELSE [LostWalk EXCEPT !.turn = turn, !.run = run]

\* DBIterator::new with an iterator type that does not borrow the DB
DBIterator_new_unbound(i, opt) ==
    /\ Alive("DB")
    /\ opt = "ro" => Alive("ReadOptions")
    /\ New(i)
    /\ UNCHANGED borrow
    /\ it_view' = [it_view EXCEPT ![i] = Eng_view(OptSnapshot(opt))]
    /\ it_pos' = [it_pos EXCEPT ![i] = None]
    /\ walk' = [walk EXCEPT ![i] = IF @ = NoWalk THEN @ ELSE NewWalk]
    /\ it_expect' = [it_expect EXCEPT ![i] =
                        IF opt = "ro" /\ snapexpect # None THEN snapexpect[1] ELSE expect]
    /\ pre' = store
    /\ last' = Call("iter", i, <<>>, opt, Ok(Unit))
    /\ UNCHANGED inflight
    /\ UNCHANGED <<frees, optVars, disk, store, batchVars, faults, expect>>

\* DBIterator::new(db, options), called by DB::iter
DBIterator_new(i, opt) ==
    /\ Alive("DB")
    /\ opt = "ro" => Alive("ReadOptions")
    /\ New(i)
    /\ borrow' = borrow \cup {i}
    /\ it_view' = [it_view EXCEPT ![i] = Eng_view(OptSnapshot(opt))]
    /\ it_pos' = [it_pos EXCEPT ![i] = None]
    /\ walk' = [walk EXCEPT ![i] = IF @ = NoWalk THEN @ ELSE NewWalk]
    /\ it_expect' = [it_expect EXCEPT ![i] =
                        IF opt = "ro" /\ snapexpect # None THEN snapexpect[1] ELSE expect]
    /\ pre' = store
    /\ last' = Call("iter", i, <<>>, opt, Ok(Unit))
    /\ UNCHANGED inflight
    /\ UNCHANGED <<frees, optVars, disk, store, batchVars, faults, expect>>

\* a positioning call made on a foreign iterator created anew for the call
IterMove_fresh(i, p, op, key, res, stepfaults) ==
    /\ Alive(i)
    /\ it_pos' = [it_pos EXCEPT ![i] = p]
    /\ it_view' = [it_view EXCEPT ![i] = store]
    /\ walk' = [walk EXCEPT ![i] = WalkAfter(@, it_view[i], it_pos[i], p, op, res)]
    /\ faults' = faults \cup Eng_iter_faults(i) \cup stepfaults
    /\ pre' = store
    /\ last' = Call(op, key, <<>>, i, res)
    /\ UNCHANGED inflight
    /\ UNCHANGED <<lifeVars, optVars, disk, store, batchVars, it_expect, expect>>

\* one foreign positioning call on iterator i, leaving it at position p
IterMove(i, p, op, key, res, stepfaults) ==
    /\ Alive(i)
    /\ it_pos' = [it_pos EXCEPT ![i] = p]
    /\ walk' = [walk EXCEPT ![i] = WalkAfter(@, it_view[i], it_pos[i], p, op, res)]
    /\ faults' = faults \cup Eng_iter_faults(i) \cup stepfaults
    /\ pre' = store
    /\ last' = Call(op, key, <<>>, i, res)
    /\ UNCHANGED inflight
    /\ UNCHANGED <<lifeVars, optVars, disk, store, batchVars, it_view, it_expect, expect>>

DBIterator_valid(i) == valid_at(it_pos[i])
DBIterator_key(i) == key_at(it_view[i], it_pos[i])
DBIterator_value(i) == value_at(it_view[i], it_pos[i])

\* a call of valid(), key() or value(): the iterator stays where it is
Read_valid(i) == IterMove(i, it_pos[i], "valid", <<>>, Ok(DBIterator_valid(i)), {})
Read_key(i) == IterMove(i, it_pos[i], "key", <<>>, Ok(DBIterator_key(i)), {})
Read_value(i) == IterMove(i, it_pos[i], "value", <<>>, Ok(DBIterator_value(i)), {})

\* DBIterator::seek_to_first()
DBIterator_seek_to_first(i) ==
    IterMove(i, Eng_seek_to_first(it_view[i]), "seek_to_first", <<>>, Ok(Unit), {})

\* seek_to_last() calling leveldb_iter_seek_to_first
DBIterator_seek_to_last_first(i) ==
    IterMove(i, Eng_seek_to_first(it_view[i]), "seek_to_last", <<>>, Ok(Unit), {})

\* DBIterator::seek_to_last()
DBIterator_seek_to_last(i) ==
    IterMove(i, Eng_seek_to_last(it_view[i]), "seek_to_last", <<>>, Ok(Unit), {})

\* seek passing 0 as the length of the target
DBIterator_seek_nolen(i, target) ==
    IterMove(i, Eng_seek(it_view[i], Slice(target, 0)), "seek", target, Ok(Unit), {})

\* DBIterator::seek(key)
DBIterator_seek(i, target) ==
    IterMove(i, Eng_seek(it_view[i], Slice(target, Len(target))), "seek", target, Ok(Unit), {})

\* next_native() calling leveldb_iter_prev
DBIterator_next_native_backward(i) ==
    \E p \in Eng_step_outcomes(it_view[i], it_pos[i], Eng_prev(it_view[i], it_pos[i])) :
        IterMove(i, p, "next_native", <<>>, Ok(Unit), Eng_step_faults(it_pos[i]))

\* DBIterator::next_native(): leveldb_iter_next, whatever the iterator's state
DBIterator_next_native(i) ==
    \E p \in Eng_step_outcomes(it_view[i], it_pos[i], Eng_next(it_view[i], it_pos[i])) :
        IterMove(i, p, "next_native", <<>>, Ok(Unit), Eng_step_faults(it_pos[i]))

\* prev_native() calling leveldb_iter_next
DBIterator_prev_native_forward(i) ==
    \E p \in Eng_step_outcomes(it_view[i], it_pos[i], Eng_next(it_view[i], it_pos[i])) :
        IterMove(i, p, "prev_native", <<>>, Ok(Unit), Eng_step_faults(it_pos[i]))

\* DBIterator::prev_native(): leveldb_iter_prev, whatever the iterator's state
DBIterator_prev_native(i) ==
    \E p \in Eng_step_outcomes(it_view[i], it_pos[i], Eng_prev(it_view[i], it_pos[i])) :
        IterMove(i, p, "prev_native", <<>>, Ok(Unit), Eng_step_faults(it_pos[i]))

\* prev() reading before it steps, as next() does
DBIterator_prev_read_first(i) ==
    IF ~DBIterator_valid(i)
    THEN IterMove(i, it_pos[i], "prev", <<>>, Ok(None), {})
    ELSE LET k == DBIterator_key(i)
             v == DBIterator_value(i)
         IN  IF k = None \/ v = None
             THEN IterMove(i, it_pos[i], "prev", <<>>, Ok(None), {})
             ELSE IterMove(i, Eng_prev(it_view[i], it_pos[i]), "prev", <<>>,
                           Ok(Some(<<k[1], v[1]>>)), {})

\* DBIterator::prev(): step back, then read
DBIterator_prev(i) ==
    IF ~DBIterator_valid(i)
    THEN IterMove(i, it_pos[i], "prev", <<>>, Ok(None), {})
    ELSE LET p == Eng_prev(it_view[i], it_pos[i])
             k == key_at(it_view[i], p)
             v == value_at(it_view[i], p)
         IN  IF k = None \/ v = None
             THEN IterMove(i, p, "prev", <<>>, Ok(None), {})
             ELSE IterMove(i, p, "prev", <<>>, Ok(Some(<<k[1], v[1]>>)), {})

\* next() stepping before it reads, as prev() does
DBIterator_next_step_first(i) ==
    IF ~DBIterator_valid(i)
    THEN IterMove(i, it_pos[i], "next", <<>>, Ok(None), {})
    ELSE LET p == Eng_next(it_view[i], it_pos[i])
             k == key_at(it_view[i], p)
             v == value_at(it_view[i], p)
         IN  IF k = None \/ v = None
             THEN IterMove(i, p, "next", <<>>, Ok(None), {})
             ELSE IterMove(i, p, "next", <<>>, Ok(Some(<<k[1], v[1]>>)), {})

\* Iterator::next for DBIterator: read, then step forward
DBIterator_next_stays(i) ==
    IF ~DBIterator_valid(i)
    THEN IterMove(i, it_pos[i], "next", <<>>, Ok(None), {})
    ELSE LET k == DBIterator_key(i)
             v == DBIterator_value(i)
         IN  IF k = None \/ v = None
             THEN IterMove(i, it_pos[i], "next", <<>>, Ok(None), {})
             ELSE IterMove(i, it_pos[i], "next", <<>>, Ok(Some(<<k[1], v[1]>>)), {})

DBIterator_next(i) ==
    IF ~DBIterator_valid(i)
    THEN IterMove(i, it_pos[i], "next", <<>>, Ok(None), {})
    ELSE LET k == DBIterator_key(i)
             v == DBIterator_value(i)
         IN  IF k = None \/ v = None
             THEN IterMove(i, it_pos[i], "next", <<>>, Ok(None), {})
             ELSE IterMove(i, Eng_next(it_view[i], it_pos[i]), "next", <<>>,
                           Ok(Some(<<k[1], v[1]>>)), {})

\* Drop for DBIterator: leveldb_iter_destroy; the borrow of the DB ends
DBIterator_drop(i) ==
    /\ i \in Iters
    /\ Drop(i)
    /\ borrow' = borrow \ {i}
    /\ last' = Call("drop DBIterator", i, <<>>, "", Ok(Unit))
    /\ UNCHANGED inflight
    /\ UNCHANGED <<allocd, optVars, disk, store, batchVars, iterVars, pre, expect>>

\* ------------------------------------------------------------------ write_batch.rs

WriteBatch_new ==
    /\ New("WriteBatch")
    /\ batchrep' = <<>>
    /\ pending' = <<>>
    /\ cleared' = FALSE
    /\ pre' = store
    /\ last' = Call("WriteBatch::new", <<>>, <<>>, "", Ok(Unit))
    /\ UNCHANGED inflight
    /\ UNCHANGED <<borrow, frees, optVars, disk, store, iterVars, faults, expect>>

\* WriteBatch::put that also writes the entry to the database at once
WriteBatch_put_through(key, value) ==
    /\ Alive("WriteBatch")
    /\ Len(batchrep) < MaxBatchLen
    /\ batchrep' = Append(batchrep, put_args(key, value))
    /\ pending' = Append(pending, PutOp(key, value))
    /\ UNCHANGED cleared
    /\ pre' = store
    /\ store' = Eng_apply(store, put_args(key, value))
    /\ last' = Call("batch put", key, value, "", Ok(Unit))
    /\ UNCHANGED inflight
    /\ UNCHANGED <<lifeVars, optVars, disk, iterVars, faults, expect>>

\* WriteBatch::put(key, value)
WriteBatch_put(key, value) ==
    /\ Alive("WriteBatch")
    /\ Len(batchrep) < MaxBatchLen
    /\ batchrep' = Append(batchrep, put_args(key, value))
    /\ pending' = Append(pending, PutOp(key, value))
    /\ UNCHANGED cleared
    /\ pre' = store
    /\ last' = Call("batch put", key, value, "", Ok(Unit))
    /\ UNCHANGED inflight
    /\ UNCHANGED <<lifeVars, optVars, disk, store, iterVars, faults, expect>>

\* WriteBatch::delete buffering a put of the empty value
WriteBatch_delete_as_put(key) ==
    /\ Alive("WriteBatch")
    /\ Len(batchrep) < MaxBatchLen
    /\ batchrep' = Append(batchrep, put_args(key, <<>>))
    /\ pending' = Append(pending, DelOp(key))
    /\ UNCHANGED cleared
    /\ pre' = store
    /\ last' = Call("batch delete", key, <<>>, "", Ok(Unit))
    /\ UNCHANGED inflight
    /\ UNCHANGED <<lifeVars, optVars, disk, store, iterVars, faults, expect>>

\* WriteBatch::delete(key)
WriteBatch_delete(key) ==
    /\ Alive("WriteBatch")
    /\ Len(batchrep) < MaxBatchLen
    /\ batchrep' = Append(batchrep, delete_args(key))
    /\ pending' = Append(pending, DelOp(key))
    /\ UNCHANGED cleared
    /\ pre' = store
    /\ last' = Call("batch delete", key, <<>>, "", Ok(Unit))
    /\ UNCHANGED inflight
    /\ UNCHANGED <<lifeVars, optVars, disk, store, iterVars, faults, expect>>

\* WriteBatch::clear() without the foreign clear call
WriteBatch_clear_noop ==
    /\ Alive("WriteBatch")
    /\ UNCHANGED batchrep
    /\ pending' = <<>>
    /\ cleared' = TRUE
    /\ pre' = store
    /\ last' = Call("batch clear", <<>>, <<>>, "", Ok(Unit))
    /\ UNCHANGED inflight
    /\ UNCHANGED <<lifeVars, optVars, disk, store, iterVars, faults, expect>>

\* WriteBatch::clear()
WriteBatch_clear ==
    /\ Alive("WriteBatch")
    /\ batchrep' = <<>>
    /\ pending' = <<>>
    /\ cleared' = TRUE
    /\ pre' = store
    /\ last' = Call("batch clear", <<>>, <<>>, "", Ok(Unit))
    /\ UNCHANGED inflight
    /\ UNCHANGED <<lifeVars, optVars, disk, store, iterVars, faults, expect>>

\* the contents after a list of operations: each key by the last operation on it
RefAfter(c, ops) ==
    [k \in Keys |->
        LET on == {n \in 1..Len(ops) : ops[n].k = k} IN
        IF on = {} THEN c[k]
        ELSE LET m == CHOOSE n \in on : \A j \in on : j <= n IN
             IF ops[m].t = "put" THEN Some(ops[m].v) ELSE None]

\* WriteBatch::write that empties the batch once it has been written
WriteBatch_write_consuming(fail) ==
    /\ Alive("WriteBatch") /\ Alive("DB") /\ Alive("WriteOptions")
    /\ LET r == Eng_write(store, batchrep, fail)
           res == write_result(r.err)
       IN  /\ store' = r.contents
           /\ last' = CallF("batch write", <<>>, <<>>,
                            IF last.op = "batch write" THEN "again" ELSE "first",
                            res, fail)
           /\ faults' = faults \cup write_buffers(r.err)
           /\ expect' = IF res.ok THEN RefAfter(expect, pending) ELSE expect
           /\ batchrep' = IF res.ok THEN <<>> ELSE batchrep
    /\ pre' = store
    /\ UNCHANGED inflight
    /\ UNCHANGED <<lifeVars, optVars, disk, pending, cleared, iterVars>>

\* WriteBatch::write(&db, &options)
WriteBatch_write(fail) ==
    /\ Alive("WriteBatch") /\ Alive("DB") /\ Alive("WriteOptions")
    /\ LET r == Eng_write(store, batchrep, fail)
           res == write_result(r.err)
       IN  /\ store' = r.contents
           /\ last' = CallF("batch write", <<>>, <<>>,
                            IF last.op = "batch write" THEN "again" ELSE "first",
                            res, fail)
           /\ faults' = faults \cup write_buffers(r.err)
           /\ expect' = IF res.ok THEN RefAfter(expect, pending) ELSE expect
    /\ pre' = store
    /\ UNCHANGED inflight
    /\ UNCHANGED <<lifeVars, optVars, disk, batchVars, iterVars>>

\* Drop for WriteBatch: leveldb_writebatch_destroy
WriteBatch_drop ==
    /\ Drop("WriteBatch")
    /\ pre' = store
    /\ last' = Call("drop WriteBatch", <<>>, <<>>, "", Ok(Unit))
    /\ UNCHANGED inflight
    /\ UNCHANGED <<borrow, allocd, optVars, disk, store, batchVars, iterVars, expect>>

\* WriteBatch::write run by one thread while other threads use the same DB
\* (DB is Send and Sync): the thread enters write(), makes its foreign calls,
\* each one a step of the engine that the calls of other threads fall before
\* or after, and returns
write_calls_per_operation(ops) == [n \in 1..Len(ops) |-> <<ops[n]>>]

write_calls(ops) == <<ops>>

WriteBatch_write_enter ==
    /\ Alive("WriteBatch") /\ Alive("DB") /\ Alive("WriteOptions")
    /\ ~inflight.active
    /\ inflight' = [active |-> TRUE, calls |-> write_calls(batchrep), before |-> store]
    /\ pre' = store
    /\ last' = Call("batch write enters", <<>>, <<>>, "", Ok(Unit))
    /\ UNCHANGED <<lifeVars, optVars, disk, store, batchVars, iterVars, faults, expect>>

WriteBatch_write_foreign ==
    /\ inflight.active /\ inflight.calls # <<>>
    /\ LET r == Eng_write(store, Head(inflight.calls), FALSE)
       IN  store' = r.contents
    /\ inflight' = [inflight EXCEPT !.calls = Tail(@)]
    /\ pre' = store
    /\ last' = Call("leveldb_write", <<>>, <<>>, "", Ok(Unit))
    /\ UNCHANGED <<lifeVars, optVars, disk, batchVars, iterVars, faults, expect>>

WriteBatch_write_return ==
    /\ inflight.active /\ inflight.calls = <<>>
    /\ inflight' = Idle
    /\ pre' = store
    /\ last' = Call("batch write", <<>>, <<>>, "returns", write_result(None))
    /\ expect' = RefAfter(expect, pending)
    /\ UNCHANGED <<lifeVars, optVars, disk, store, batchVars, iterVars, faults>>

\* ------------------------------------------------------------------ specifications

\* the lifecycle of the wrappers: every constructor, every drop, and the calls
\* that take another wrapper by reference
Next ==
    \/ Options_new
    \/ \E value \in BOOLEAN : Options_create_if_missing(value)
    \/ Options_drop
    \/ ReadOptions_new
    \/ ReadOptions_snapshot
    \/ ReadOptions_drop
    \/ WriteOptions_new
    \/ WriteOptions_drop
    \/ \E path \in Paths, fail \in BOOLEAN : DB_open(path, fail)
    \/ DB_drop
    \/ \E i \in Iters, opt \in {"ro", "default"} : DBIterator_new(i, opt)
    \/ \E i \in Iters : DBIterator_seek_to_first(i)
    \/ \E i \in Iters : DBIterator_seek_to_last(i)
    \/ \E i \in Iters, target \in FewKeys : DBIterator_seek(i, target)
    \/ \E i \in Iters : DBIterator_next_native(i)
    \/ \E i \in Iters : DBIterator_prev_native(i)
    \/ \E i \in Iters : DBIterator_next(i)
    \/ \E i \in Iters : DBIterator_prev(i)
    \/ \E i \in Iters : Read_valid(i)
    \/ \E i \in Iters : Read_key(i)
    \/ \E i \in Iters : Read_value(i)
    \/ \E i \in Iters : DBIterator_drop(i)
    \/ WriteBatch_new
    \/ \E fail \in BOOLEAN : WriteBatch_write(fail)
    \/ WriteBatch_drop

Spec == Init /\ [][Next]_vars

\* the state the tests start from (setup_test_db, then WriteOptions::new() and
\* ReadOptions::new()): the Options were dropped as setup_test_db returned, the
\* database is open and empty
OpenState ==
    /\ wrap = [w \in W \cup Others |-> IF w \in {"DB", "ReadOptions", "WriteOptions"} THEN "alive"
                           ELSE IF w = "Options" THEN "dropped" ELSE "none"]
    /\ borrow = {}
    /\ allocd = {"Options", "DB", "ReadOptions", "WriteOptions"}
    /\ frees = [w \in W \cup Others |-> IF w = "Options" THEN 1 ELSE 0]
    /\ cim = TRUE
    /\ disk = TRUE
    /\ store = EmptyDB
    /\ rsnap = None
    /\ nsnaps = 0
    /\ batchrep = <<>>
    /\ pending = <<>>
    /\ it_view = [i \in Iters |-> EmptyDB]
    /\ it_pos = [i \in Iters |-> None]
    /\ faults = {}
    /\ last = Call("WriteOptions::new", <<>>, <<>>, "", Ok(Unit))
    /\ pre = EmptyDB
    /\ expect = EmptyDB
    /\ snapexpect = None
    /\ it_expect = [i \in Iters |-> EmptyDB]
    /\ cleared = FALSE
    /\ inflight = Idle

InitOpen == OpenState /\ walk = [i \in Iters |-> NoWalk]

\* point reads and writes on the open database
NextKV ==
    \/ \E key \in Keys, value \in Values, fail \in BOOLEAN : DB_put(key, value, fail)
    \/ \E key \in Keys, fail \in BOOLEAN : DB_delete(key, fail)
    \/ \E key \in Keys, fail \in BOOLEAN : DB_get(key, "default", fail)
    \/ \E start \in Bounds, limit \in Bounds : DB_compact_range(start, limit)
    \/ DB_flush

SpecKV == InitOpen /\ [][NextKV]_vars

\* snapshots: reads and one iterator under the ReadOptions and under default options
NextSnap ==
    \/ ReadOptions_snapshot
    \/ \E key \in FewKeys, value \in Values : DB_put(key, value, FALSE)
    \/ \E key \in FewKeys : DB_delete(key, FALSE)
    \/ \E key \in FewKeys, opt \in {"ro", "default"} : DB_get(key, opt, FALSE)
    \/ \E opt \in {"ro", "default"} : DBIterator_new("DBIterator1", opt)
    \/ DBIterator_next("DBIterator1")
    \/ DBIterator_seek_to_first("DBIterator1")

SpecSnap == InitOpen /\ [][NextSnap]_vars

\* one write batch and the open database
NextBatch ==
    \/ WriteBatch_new
    \/ \E key \in FewKeys, value \in Values : WriteBatch_put(key, value)
    \/ \E key \in FewKeys : WriteBatch_delete(key)
    \/ WriteBatch_clear
    \/ \E fail \in BOOLEAN : WriteBatch_write(fail)
    \/ WriteBatch_drop

SpecBatch == InitOpen /\ [][NextBatch]_vars

\* an iterator with default read options, and writes made while it is alive
NextLive ==
    \/ \E key \in FewKeys, value \in Values : DB_put(key, value, FALSE)
    \/ \E key \in FewKeys : DB_delete(key, FALSE)
    \/ WriteBatch_new
    \/ \E key \in FewKeys, value \in Values : WriteBatch_put(key, value)
    \/ WriteBatch_write(FALSE)
    \/ DBIterator_new("DBIterator1", "default")
    \/ DBIterator_seek_to_first("DBIterator1")
    \/ \E target \in FewKeys : DBIterator_seek("DBIterator1", target)
    \/ DBIterator_next("DBIterator1")

SpecLive == InitOpen /\ [][NextLive]_vars

\* one thread building and writing batches, other threads reading the shared
\* DB through get and through new iterators at any moment of the write; the
\* writes themselves are serialised by the callers
NextShared ==
    \/ ~inflight.active /\ \E key \in FewKeys, value \in Values : DB_put(key, value, FALSE)
    \/ ~inflight.active /\ WriteBatch_new
    \/ ~inflight.active /\ \E key \in FewKeys, value \in Values : WriteBatch_put(key, value)
    \/ ~inflight.active /\ \E key \in FewKeys : WriteBatch_delete(key)
    \/ WriteBatch_write_enter
    \/ WriteBatch_write_foreign
    \/ WriteBatch_write_return
    \/ \E key \in FewKeys : DB_get(key, "default", FALSE)
    \/ DBIterator_new("DBIterator1", "default")

SpecShared == InitOpen /\ [][NextShared]_vars

\* two databases and one ReadOptions that takes a snapshot of the first
NextTwo ==
    \/ Options_new
    \/ \E value \in BOOLEAN : Options_create_if_missing(value)
    \/ ReadOptions_new
    \/ WriteOptions_new
    \/ \E path \in Paths : DB_open(path, FALSE)
    \/ \E path \in Paths : DB_open_second(path)
    \/ \E key \in FewKeys, value \in Values : DB_put(key, value, FALSE)
    \/ ReadOptions_snapshot
    \/ \E key \in FewKeys : DB_get(key, "ro", FALSE)
    \/ \E key \in FewKeys : DB_get_second(key)
    \/ DB_drop

SpecTwo == Init /\ [][NextTwo]_vars

\* every call that can hand the wrapper an engine-allocated buffer, from the
\* opening of the database on, the engine failing or not
NextBuf ==
    \/ Options_new
    \/ \E value \in BOOLEAN : Options_create_if_missing(value)
    \/ ReadOptions_new
    \/ WriteOptions_new
    \/ \E path \in Paths, fail \in BOOLEAN : DB_open(path, fail)
    \/ \E key \in FewKeys, value \in Values, fail \in BOOLEAN : DB_put(key, value, fail)
    \/ \E key \in FewKeys, fail \in BOOLEAN : DB_delete(key, fail)
    \/ \E key \in FewKeys, fail \in BOOLEAN : DB_get(key, "ro", fail)
    \/ WriteBatch_new
    \/ \E key \in FewKeys, value \in Values : WriteBatch_put(key, value)
    \/ \E fail \in BOOLEAN : WriteBatch_write(fail)

SpecBuf == Init /\ [][NextBuf]_vars

\* the iterator tests (setup_test_db_with_data, then db.iter): the data is
\* written in any order, then one iterator is created and used
InitIter == OpenState /\ walk = [i \in Iters |-> NewWalk]

NextIter ==
    \/ \E key \in Keys, value \in Values :
           wrap["DBIterator1"] = "none" /\ DB_put(key, value, FALSE)
    \/ \E key \in Keys : wrap["DBIterator1"] = "none" /\ DB_delete(key, FALSE)
    \/ DBIterator_new("DBIterator1", "default")
    \/ DBIterator_seek_to_first("DBIterator1")
    \/ DBIterator_seek_to_last("DBIterator1")
    \/ \E target \in Targets : DBIterator_seek("DBIterator1", target)
    \/ DBIterator_next_native("DBIterator1")
    \/ DBIterator_prev_native("DBIterator1")
    \/ DBIterator_next("DBIterator1")
    \/ DBIterator_prev("DBIterator1")
    \/ Read_valid("DBIterator1")
    \/ Read_key("DBIterator1")
    \/ Read_value("DBIterator1")

SpecIter == InitIter /\ [][NextIter]_vars

\* puts and deletes made while an iterator is alive and stepped with next(),
\* its traversal being recorded
NextLiveWalk ==
    \/ \E key \in FewKeys, value \in Values : DB_put(key, value, FALSE)
    \/ \E key \in FewKeys : DB_delete(key, FALSE)
    \/ DBIterator_new("DBIterator1", "default")
    \/ DBIterator_seek_to_first("DBIterator1")
    \/ \E target \in FewKeys : DBIterator_seek("DBIterator1", target)
    \/ DBIterator_next("DBIterator1")

SpecLiveWalk == InitIter /\ [][NextLiveWalk]_vars

\* ------------------------------------------------------------------ properties

\* what get(k) with default read options returns when the engine reports no error
Get(k) == DB_get_value(k, "default", FALSE)

\* C1: no DBIterator operation, its destruction included, is executed after the
\* DB it was created from has been closed: the DB is closed only after every
\* iterator created from it has been destroyed.
C1_IteratorsEndBeforeClose ==
    /\ "iterator used after close" \notin faults
    /\ \A i \in Iters : (i \in allocd /\ frees["DB"] > 0) => frees[i] > 0
    /\ \A i \in Iters : Alive(i) => Eng_live("DB")

\* C1 witness: the DB has been closed after two iterators were created from it
C1_Witness ==
    /\ frees["DB"] = 1
    /\ \A i \in Iters : i \in allocd /\ frees[i] = 1

\* C2: every foreign handle a wrapper acquired is released by exactly one
\* destroy/close call: none while the wrapper is alive, one once it is gone,
\* never two; a failed DB::open owns no handle.
C2_ReleasedExactlyOnce ==
    /\ "double_free" \notin faults
    /\ \A w \in W :
        /\ wrap[w] = "none" => (w \notin allocd /\ frees[w] = 0)
        /\ wrap[w] = "alive" => (w \in allocd /\ frees[w] = 0)
        /\ wrap[w] = "dropped" => (w \in allocd /\ frees[w] = 1)

\* C2 witness: every wrapper has been created, used and dropped
C2_Witness == \A w \in W : wrap[w] = "dropped" /\ frees[w] = 1

\* C3: after a successful put(k, v), get(k) returns Some(v), also for the
\* empty key and the empty value.
C3_PutThenGet ==
    (last.op = "put" /\ last.res.ok) => Get(last.key) = Ok(Some(last.val))

\* C3 witness: the empty value has been stored under the empty key
C3_Witness == last.op = "put" /\ last.res.ok /\ last.key = <<>> /\ last.val = <<>>

\* C4: get(k) returns the value of the most recent successful put(k, v) that no
\* delete(k) followed, and None otherwise; writes to one key leave the others.
C4_LastWriteWins ==
    /\ \A k \in Keys : Get(k) = Ok(expect[k])
    /\ (last.op = "get" /\ last.res.ok) => last.res.val = expect[last.key]

\* C4 witness: a put has overwritten another value while another key is present
C4_Witness ==
    /\ last.op = "put" /\ last.res.ok
    /\ pre[last.key] # None /\ pre[last.key] # Some(last.val)
    /\ \E j \in Keys \ {last.key} : expect[j] # None

\* C5: absence is no error: get of an absent key returns Ok(None), delete of an
\* absent key returns Ok(()), leaves get(k) None and every other key as it was.
C5_AbsenceIsNoError ==
    /\ \A k \in Keys : store[k] = None => Get(k) = Ok(None)
    /\ (last.op = "get" /\ ~last.fail /\ pre[last.key] = None) => last.res = Ok(None)
    /\ (last.op = "delete" /\ ~last.fail /\ pre[last.key] = None) =>
           /\ last.res = Ok(Unit)
           /\ Get(last.key) = Ok(None)
           /\ \A j \in Keys \ {last.key} : Get(j) = Ok(pre[j])

\* C5 witness: an absent key has been deleted while other keys are present
C5_Witness ==
    /\ last.op = "delete" /\ ~last.fail /\ pre[last.key] = None
    /\ \E j \in Keys : pre[j] # None

\* C6: a get and an iterator under ReadOptions on which snapshot(&db) was called
\* show the contents as of that call, whatever was written since; reads with
\* default options show the current contents.
C6_SnapshotIsolation ==
    /\ snapexpect # None =>
           \A k \in Keys : DB_get_value(k, "ro", FALSE) = Ok(snapexpect[1][k])
    /\ (last.op = "get" /\ last.opt = "ro" /\ snapexpect # None) =>
           last.res = Ok(snapexpect[1][last.key])
    /\ (last.op = "get" /\ last.opt = "default") => last.res = Ok(expect[last.key])
    /\ \A i \in Iters : Alive(i) =>
           /\ FullScan(it_view[i]) = FullScan(it_expect[i])
           /\ DBIterator_valid(i) =>
                  Some(DBIterator_value(i)[1]) = it_expect[i][DBIterator_key(i)[1]]

\* C6 witness: a get under the snapshot has returned what a default read does
\* not, beside an iterator that was created under the snapshot
C6_Witness ==
    /\ last.op = "get" /\ last.opt = "ro" /\ snapexpect # None
    /\ last.res # Get(last.key)
    /\ Alive("DBIterator1") /\ it_expect["DBIterator1"] = snapexpect[1]
    /\ it_expect["DBIterator1"] # expect

\* C7: WriteBatch::write is all or nothing: on Ok every buffered put and delete
\* is visible, on Err the contents are what they were before the call.
C7_WriteAllOrNothing ==
    last.op = "batch write" =>
        IF last.res.ok
        THEN \A k \in Keys : Get(k) = Ok(RefAfter(pre, pending)[k])
        ELSE /\ store = pre
             /\ \A k \in Keys : Get(k) = Ok(pre[k])

\* C7 witness: a batch holding a put and a delete has been written and changed
\* the contents
C7_Witness ==
    /\ last.op = "batch write" /\ last.res.ok /\ store # pre
    /\ \E m, n \in 1..Len(pending) : pending[m].t = "put" /\ pending[n].t = "del"

\* C8: put, delete and clear on a batch and the drop of a batch leave the
\* contents of the database unchanged: every get and every iteration returns
\* what it returned before.
C8_BatchIsLocal ==
    last.op \in {"WriteBatch::new", "batch put", "batch delete", "batch clear",
                 "drop WriteBatch"} =>
        /\ \A k \in Keys : Get(k) = Ok(pre[k])
        /\ FullScan(store) = FullScan(pre)

\* C8 witness: a batch holding a put has been dropped, nothing written
C8_Witness ==
    /\ last.op = "drop WriteBatch"
    /\ \E n \in 1..Len(pending) : pending[n].t = "put"
    /\ store = EmptyDB

\* C9: write leaves the batch's buffered operations as they were, on success
\* and on failure, so a second write submits the same operations in order.
C9_WriteKeepsBatch ==
    last.op = "batch write" =>
        /\ batchrep = pending
        /\ (last.opt = "again" /\ last.res.ok) => store = Eng_applyAll(pre, pending)

\* C9 witness: the write of a batch has been repeated and changed the contents,
\* so the write before it had failed
C9_Witness ==
    /\ last.op = "batch write" /\ last.opt = "again" /\ last.res.ok
    /\ pending # <<>> /\ store # pre

\* C10: clear() empties the batch and keeps its foreign handle: a write right
\* after it changes nothing, a write after later puts and deletes applies
\* those alone.
C10_ClearEmptiesBatch ==
    /\ last.op = "batch clear" =>
           batchrep = <<>> /\ Alive("WriteBatch") /\ Eng_live("WriteBatch")
    /\ (cleared /\ last.op = "batch write") =>
           /\ Eng_live("WriteBatch")
           /\ pending = <<>> => store = pre
           /\ last.res.ok => store = RefAfter(pre, pending)

\* C10 witness: after a clear, an operation was added and written
C10_Witness ==
    /\ cleared /\ last.op = "batch write" /\ last.res.ok
    /\ pending # <<>> /\ store # pre

\* the entries of contents c in ascending byte-lexicographic key order: the
\* n-th is the one with n - 1 smaller keys
Ascending(c) ==
    [n \in 1..Cardinality(KeysOf(c)) |->
        LET k == CHOOSE k \in KeysOf(c) :
                    Cardinality({j \in KeysOf(c) : BytewiseLess(j, k)}) = n - 1
        IN  <<k, c[k][1]>>]

Reverse(s) == [n \in 1..Len(s) |-> s[Len(s) + 1 - n]]

IsPrefix(s, t) == Len(s) <= Len(t) /\ SubSeq(t, 1, Len(s)) = s

\* C11: iteration visits every entry exactly once in byte-lexicographic key
\* order: after seek_to_first, reading while valid() and stepping forward shows
\* the entries in ascending order, all of them once the iterator is invalid;
\* after seek_to_last and stepping backward, the same in reverse; the order the
\* keys were inserted in plays no part.
C11_IterationOrder ==
    \A i \in Iters : Alive(i) =>
        /\ walk[i].dir = "fwd" =>
               /\ IsPrefix(walk[i].seen, Ascending(it_expect[i]))
               /\ ~DBIterator_valid(i) => walk[i].seen = Ascending(it_expect[i])
        /\ walk[i].dir = "bwd" =>
               /\ IsPrefix(walk[i].seen, Reverse(Ascending(it_expect[i])))
               /\ ~DBIterator_valid(i) =>
                      walk[i].seen = Reverse(Ascending(it_expect[i]))

\* C11 witness: a backward traversal of four entries has run off the beginning
C11_Witness ==
    /\ walk["DBIterator1"].dir = "bwd" /\ ~DBIterator_valid("DBIterator1")
    /\ Len(walk["DBIterator1"].seen) = 4
    /\ walk["DBIterator1"].seen[2][1] = <<1, 2>>

\* C12: seek(target) leaves the iterator at the smallest key >= target,
\* whatever its state before: on target itself if it is a key, on the first key
\* if target is below every key, invalid if no key is >= target (so on an empty
\* database).
C12_SeekLandsOnCeiling ==
    \A i \in Iters : (Alive(i) /\ last.op = "seek" /\ last.opt = i) =>
        LET ks == KeysOf(it_expect[i])
            ge == {k \in ks : BytewiseLeq(last.key, k)}
        IN  /\ ge = {} => ~DBIterator_valid(i)
            /\ ge # {} =>
                   /\ DBIterator_valid(i)
                   /\ DBIterator_key(i)[1] \in ge
                   /\ \A k \in ge : BytewiseLeq(DBIterator_key(i)[1], k)
            /\ last.key \in ks => DBIterator_key(i) = Some(last.key)
            /\ (ks # {} /\ \A k \in ks : BytewiseLess(last.key, k)) =>
                   DBIterator_key(i) = Some(Ascending(it_expect[i])[1][1])

\* C12 witness: a seek to a target that is no key has landed on the next key,
\* with smaller keys present
C12_Witness ==
    /\ last.op = "seek" /\ last.key = <<1, 2>> /\ Alive("DBIterator1")
    /\ KeysOf(it_expect["DBIterator1"]) = {<<>>, <<1>>, <<2>>}
    /\ DBIterator_key("DBIterator1") = Some(<<2>>)

\* C13: a new iterator is invalid until a positioning call; seek_to_first and
\* seek_to_last, from any state, leave it valid iff the contents it sees are
\* non-empty, at the smallest and at the largest key respectively.
C13_FirstAndLast ==
    \A i \in Iters : Alive(i) =>
        LET ks == KeysOf(it_expect[i]) IN
        /\ walk[i].dir = "new" => ~DBIterator_valid(i)
        /\ (last.opt = i /\ last.op \in {"seek_to_first", "seek_to_last"}) =>
               (DBIterator_valid(i) <=> ks # {})
        /\ (last.opt = i /\ last.op = "seek_to_first" /\ ks # {}) =>
               /\ DBIterator_key(i)[1] \in ks
               /\ \A k \in ks : BytewiseLeq(DBIterator_key(i)[1], k)
        /\ (last.opt = i /\ last.op = "seek_to_last" /\ ks # {}) =>
               /\ DBIterator_key(i)[1] \in ks
               /\ \A k \in ks : BytewiseLeq(k, DBIterator_key(i)[1])

\* C13 witness: seek_to_last has put the iterator on the largest of several keys
C13_Witness ==
    /\ last.op = "seek_to_last" /\ Alive("DBIterator1")
    /\ KeysOf(it_expect["DBIterator1"]) = {<<1>>, <<1, 2>>}
    /\ DBIterator_key("DBIterator1") = Some(<<1, 2>>)

\* C14: in every iterator state key() and value() return None exactly when
\* valid() is false; when it is true they return Some key and Some value of the
\* one entry the iterator is at, the value being the one stored under the key;
\* valid(), key() and value() leave the position as it is.
C14_KeyValueIffValid ==
    /\ [](\A i \in Iters : Alive(i) =>
             /\ (DBIterator_key(i) = None) <=> ~DBIterator_valid(i)
             /\ (DBIterator_value(i) = None) <=> ~DBIterator_valid(i)
             /\ DBIterator_valid(i) =>
                    /\ DBIterator_key(i)[1] \in KeysOf(it_expect[i])
                    /\ it_expect[i][DBIterator_key(i)[1]] = DBIterator_value(i)
             /\ (last.opt = i /\ last.op = "key") => last.res = Ok(DBIterator_key(i))
             /\ (last.opt = i /\ last.op = "value") => last.res = Ok(DBIterator_value(i))
             /\ (last.opt = i /\ last.op = "valid") => last.res = Ok(DBIterator_valid(i)))
    /\ [][last'.op \in {"valid", "key", "value"} => it_pos' = it_pos]_vars

\* C14 witness: value() has returned the empty value of the entry under a
\* non-empty key, other entries being present
C14_Witness ==
    /\ last.op = "value" /\ last.res = Ok(Some(<<>>))
    /\ DBIterator_key("DBIterator1") = Some(<<1, 2>>)
    /\ Cardinality(KeysOf(it_expect["DBIterator1"])) > 2

\* the key after and the key before key k in contents c, as Option<key>
Successor(c, k) ==
    LET gt == {j \in KeysOf(c) : BytewiseLess(k, j)} IN
    IF gt = {} THEN None
    ELSE Some(CHOOSE j \in gt : \A m \in gt : BytewiseLeq(j, m))

Predecessor(c, k) ==
    LET lt == {j \in KeysOf(c) : BytewiseLess(j, k)} IN
    IF lt = {} THEN None
    ELSE Some(CHOOSE j \in lt : \A m \in lt : BytewiseLeq(m, j))

\* C15: Iterator::next reads, then steps: on a valid iterator it returns the
\* pair the iterator was at before the call and leaves it at the successor
\* entry, or invalid if there is none; on an invalid iterator it returns None
\* and does not move it.
C15_NextReadsThenSteps ==
    [][\A i \in Iters : (last'.op = "next" /\ last'.opt = i) =>
          IF it_pos[i] # None
          THEN /\ last'.res = Ok(Some(<<it_pos[i][1], it_expect[i][it_pos[i][1]][1]>>))
               /\ it_pos'[i] = Successor(it_expect[i], it_pos[i][1])
          ELSE /\ last'.res = Ok(None)
               /\ it_pos'[i] = it_pos[i]]_vars

\* C15 witness: next() has returned an entry and left the iterator on the next
\* one, in byte order
C15_Witness ==
    /\ last.op = "next" /\ last.res.val # None
    /\ last.res.val[1][1] = <<1, 2>>
    /\ DBIterator_key("DBIterator1") = Some(<<2>>)

\* C16: DBIterator::prev reads, then steps: on a valid iterator it returns the
\* pair the iterator was at before the call and moves one entry back; it
\* returns None only if the iterator was invalid before the call; so after
\* seek_to_last, prev() until None yields every entry, the last one first, in
\* descending key order.
C16_PrevReadsThenSteps ==
    /\ [][\A i \in Iters : (last'.op = "prev" /\ last'.opt = i) =>
             IF it_pos[i] # None
             THEN /\ last'.res = Ok(Some(<<it_pos[i][1], it_expect[i][it_pos[i][1]][1]>>))
                  /\ it_pos'[i] = Predecessor(it_expect[i], it_pos[i][1])
             ELSE /\ last'.res = Ok(None)
                  /\ it_pos'[i] = it_pos[i]]_vars
    /\ [](\A i \in Iters :
             (/\ Alive(i) /\ last.op = "prev" /\ last.opt = i /\ last.res = Ok(None)
              /\ walk[i].dir = "bwd" /\ walk[i].by = "prev") =>
                 walk[i].got = Reverse(Ascending(it_expect[i])))

\* C17: an iterator from DB::iter consumed through the Iterator trait with no
\* seek before starts before the first element: on a non-empty database its
\* first next() returns the first pair, further calls go on in key order, and
\* None is returned only after all entries have been returned.
C17_FreshIteratorIterates ==
    \A i \in Iters :
        (/\ Alive(i) /\ last.op = "next" /\ last.opt = i
         /\ walk[i].dir = "new" /\ walk[i].by = "next") =>
            /\ IsPrefix(walk[i].got, Ascending(it_expect[i]))
            /\ KeysOf(it_expect[i]) # {} => walk[i].got # <<>>
            /\ last.res = Ok(None) => walk[i].got = Ascending(it_expect[i])

\* C18: stepping an invalid iterator is a defined no-op: next_native,
\* prev_native, next() and prev() called while valid() is false (on a new
\* iterator, after running off either end, on an empty database) never call
\* the engine's step primitive outside its valid-iterator precondition and
\* leave the iterator invalid.
C18_StepOnInvalidIsNoOp ==
    /\ []("step of an invalid iterator" \notin faults)
    /\ [][\A i \in Iters :
             (/\ last'.op \in {"next_native", "prev_native", "next", "prev"}
              /\ last'.opt = i /\ it_pos[i] = None) => it_pos'[i] = None]_vars

HasNul(path) == \E n \in 1..Len(path) : path[n] = 0

\* C19: DB::open on a path where no database exists, the engine reporting no
\* other failure: with create_if_missing never set or set to false it returns
\* an error with a non-empty message and no DB; with create_if_missing(true) it
\* succeeds and the DB is usable: get of any key returns Ok(None).
C19_OpenWithoutCreate ==
    (last.op = "open" /\ ~last.fail /\ ~HasNul(last.key)) =>
        /\ last.res.ok <=> cim
        /\ ~last.res.ok =>
               /\ last.res.err # ""
               /\ wrap["DB"] = "none" /\ "DB" \notin allocd /\ ~disk
        /\ last.res.ok =>
               /\ Alive("DB") /\ Eng_live("DB") /\ disk
               /\ \A k \in Keys : Get(k) = Ok(None)

\* C19 witness: open has failed for want of create_if_missing
C19_Witness ==
    /\ last.op = "open" /\ ~last.fail /\ ~HasNul(last.key)
    /\ ~cim /\ ~last.res.ok /\ wrap["DB"] = "none"

\* what DB::open returns when the engine fails to open the database
EngineOpenFailures ==
    {Err(error_message(Eng_open(create, exists, fail).err)) :
        create \in BOOLEAN, exists \in BOOLEAN, fail \in {TRUE}}
    \cup {Err("failed to open database")}

\* C20: DB::open with a path holding a NUL byte fails with an InvalidPath error,
\* of another error kind than the Open error of engine failures, and the
\* foreign open call is not made: no handle is created.
C20_InvalidPathIsDistinct ==
    (last.op = "open" /\ HasNul(last.key)) =>
        /\ ~last.res.ok
        /\ last.opt # "leveldb_open"
        /\ wrap["DB"] = "none" /\ "DB" \notin allocd
        /\ \A e \in EngineOpenFailures : ErrorKind(last.res) # ErrorKind(e)

\* C21: compact_range(start, limit), for every combination of Some and None
\* bounds, and flush(), which is compact_range(None, None), leave the contents
\* unchanged: every get and every full iteration returns what it returned
\* before, and the DB stays usable.
C21_CompactionKeepsContents ==
    last.op \in {"compact_range", "flush"} =>
        /\ \A k \in Keys : Get(k) = Ok(pre[k]) /\ Get(k) = Ok(expect[k])
        /\ FullScan(store) = FullScan(pre)
        /\ Alive("DB") /\ Eng_live("DB")
        /\ last.op = "flush" => (last.key = None /\ last.val = None)

\* C21 witness: flush has been called on a database holding several entries
C21_Witness ==
    /\ last.op = "flush"
    /\ Cardinality(KeysOf(store)) > 1

\* the messages of the engine's failures
EngineMessages ==
    {Eng_open(create, exists, fail).err[1] :
        create \in BOOLEAN, exists \in BOOLEAN, fail \in {TRUE}}
    \cup {Eng_open(FALSE, FALSE, FALSE).err[1], Eng_get(None, <<>>, TRUE).err[1],
          Eng_write(EmptyDB, <<>>, TRUE).err[1]}

\* C22: every buffer the engine hands to the wrapper (a non-null error message
\* from open, get, put, delete or WriteBatch::write, a non-null value buffer
\* from get) is copied and freed through the engine's deallocation call exactly
\* once before the function returns, on every return path, and is not read
\* after it was freed: what the caller gets is the content the engine wrote.
C22_BuffersCopiedAndFreed ==
    /\ faults \cap {"buffer not freed", "buffer freed twice", "buffer read after free"} = {}
    /\ (last.fail /\ last.op \in {"open", "get", "put", "delete", "batch write"}
           /\ ~(last.op = "open" /\ HasNul(last.key))) =>
           (~last.res.ok /\ last.res.err \in EngineMessages)
    /\ (last.op = "get" /\ ~last.fail /\ Alive("DB")) =>
           last.res = Ok(store[last.key])

\* C22 witness: a write has failed with the engine's message, on a database
\* that holds an entry
C22_Witness ==
    /\ last.op = "batch write" /\ last.fail /\ ~last.res.ok
    /\ last.res.err = "IO error"
    /\ KeysOf(store) # {}

\* C23: DBIterator::prev() returns Some((key, value)) iff the iterator was
\* valid before the call and is still valid after moving one entry back, and
\* the pair is the entry at the new position, the predecessor; it returns None
\* if the iterator was invalid before the call or the step moved it off the
\* beginning, which leaves it invalid.
C23_PrevReturnsPredecessor ==
    [][\A i \in Iters : (last'.op = "prev" /\ last'.opt = i) =>
          LET before == it_pos[i]
              after == IF before = None THEN None
                       ELSE Predecessor(it_expect[i], before[1])
          IN  /\ it_pos'[i] = after
              /\ last'.res = IF after = None THEN Ok(None)
                             ELSE Ok(Some(<<after[1], it_expect[i][after[1]][1]>>))]_vars

\* C23 witness: prev() on the last of three entries has returned the middle one
C23_Witness ==
    /\ last.op = "prev" /\ last.res.val # None
    /\ last.res.val[1][1] = <<1, 2>>
    /\ KeysOf(it_expect["DBIterator1"]) = {<<1>>, <<1, 2>>, <<2>>}
    /\ DBIterator_key("DBIterator1") = Some(<<1, 2>>)

\* C24: direction can be switched on the one cursor: from an entry e, however
\* reached, one backward step leaves the iterator at the predecessor of e,
\* invalid if e is the first entry; a forward step and then a backward step,
\* from an entry that is not the last, leave it at the same entry.
C24_DirectionSwitch ==
    /\ [][\A i \in Iters :
             (/\ last'.op \in {"prev_native", "prev"} /\ last'.opt = i
              /\ it_pos[i] # None) =>
                 it_pos'[i] = Predecessor(it_expect[i], it_pos[i][1])]_vars
    /\ [](\A i \in Iters :
             (/\ Alive(i) /\ walk[i].turn.n = 2
              /\ Successor(it_expect[i], walk[i].turn.from[1]) # None) =>
                 it_pos[i] = walk[i].turn.from)

\* C24 witness: next_native and then prev_native have brought the iterator back
\* to an entry that has entries on both sides
C24_Witness ==
    /\ last.op = "prev_native" /\ walk["DBIterator1"].turn.n = 2
    /\ it_pos["DBIterator1"] = Some(<<1, 2>>)
    /\ KeysOf(it_expect["DBIterator1"]) = {<<>>, <<1, 2>>, <<2>>}

\* C25: an iterator created with read options that have no snapshot shows the
\* database as of its creation: put, delete and WriteBatch::write made while it
\* is alive change neither the entries it visits, re-seeking included, nor its
\* position, key or value.
C25_IteratorViewFrozen ==
    /\ [][last'.op \in {"put", "delete", "batch write"} =>
             (it_pos' = it_pos /\ it_view' = it_view)]_vars
    /\ [](\A i \in Iters : Alive(i) =>
             /\ FullScan(it_view[i]) = Ascending(it_expect[i])
             /\ (last.opt = i /\ last.op = "seek_to_first") =>
                    it_pos[i] = Eng_seek_to_first(it_expect[i])
             /\ (last.opt = i /\ last.op = "seek") =>
                    it_pos[i] = Eng_seek(it_expect[i], last.key))

\* C25 witness: the iterator has been positioned again after writes, one of
\* them a batch, changed what the database holds under every key it shows
C25_Witness ==
    /\ last.op = "seek_to_first" /\ Alive("DBIterator1")
    /\ KeysOf(it_expect["DBIterator1"]) = FewKeys
    /\ \A k \in FewKeys : store[k] # it_expect["DBIterator1"][k]
    /\ batchrep # <<>> /\ store = Eng_applyAll(store, batchrep)

\* the operations applied one by one, in the order they were added
RECURSIVE OneByOne(_, _)
OneByOne(c, ops) ==
    IF ops = <<>> THEN c
    ELSE LET o == ops[Len(ops)]
             before == OneByOne(c, SubSeq(ops, 1, Len(ops) - 1))
         IN  [before EXCEPT ![o.k] = IF o.t = "put" THEN Some(o.v) ELSE None]

\* C26: a successfully written batch has the effect of its puts and deletes
\* applied one by one in the order they were added: of several operations on
\* one key the last one added decides (put then delete: absent; delete then
\* put: present with the value of the put).
C26_BatchAppliedInOrder ==
    (last.op = "batch write" /\ last.res.ok) =>
        /\ \A k \in Keys : Get(k) = Ok(OneByOne(pre, pending)[k])
        /\ \A n \in 1..Len(pending) :
               (\A m \in (n + 1)..Len(pending) : pending[m].k # pending[n].k) =>
                   Get(pending[n].k) = IF pending[n].t = "put"
                                       THEN Ok(Some(pending[n].v)) ELSE Ok(None)

\* C26 witness: a batch holding a put of a key and then a delete of it has been
\* written to a database that held the key
C26_Witness ==
    /\ last.op = "batch write" /\ last.res.ok /\ Len(pending) = 2
    /\ pending[1].t = "put" /\ pending[2].t = "del" /\ pending[1].k = pending[2].k
    /\ pre[pending[1].k] # None /\ store[pending[1].k] = None
\* C27: a reader on another thread (a get, or an iterator created) that runs
\* while a WriteBatch::write is in progress observes the database either as it
\* was before the batch or with every operation of the batch applied
C27_BatchSeenWholeOrNot ==
    inflight.active =>
        LET before == inflight.before
            after == RefAfter(inflight.before, pending)
        IN  /\ last.op = "get" =>
                  /\ last.res.ok
                  /\ last.res.val \in {before[last.key], after[last.key]}
            /\ last.op = "iter" =>
                  FullScan(it_view[last.key]) \in {FullScan(before), FullScan(after)}

C27_Witness ==
    /\ inflight.active /\ inflight.calls = <<>>
    /\ last.op = "iter"
    /\ Len(pending) = 2 /\ pending[1].k # pending[2].k
    /\ it_view[last.key] = RefAfter(inflight.before, pending)
    /\ \A k \in FewKeys : it_view[last.key][k] # inflight.before[k]

\* C28: the snapshot set on a ReadOptions stays valid while the ReadOptions is
\* usable: no get or iter call is made with a ReadOptions whose snapshot comes
\* from a database that has been closed since (every snapshot is taken from
\* the first database)
C28_SnapshotOutlivedByDB ==
    (last.op \in {"get", "get second", "iter"} /\ last.opt = "ro" /\ rsnap # None)
        => Eng_live("DB")

\* C29: counted from any position, next() returns an entry at most as many
\* times in a row as the iterator's view (the contents when it was created) has
\* entries, whatever is inserted meanwhile, so that the call after those
\* returns None; and once next() has returned None, every further next()
\* without a positioning call in between returns None
C29_NextTerminates ==
    /\ [](\A i \in Iters :
            walk[i].run.n <= Cardinality({k \in Keys : it_expect[i][k] # None}))
    /\ [][\A i \in Iters :
            (walk[i].run.done /\ last'.op = "next" /\ last'.opt = i)
                => last'.res.val = None]_vars

C29_Witness ==
    /\ last.op = "next" /\ last.res.val = None
    /\ walk["DBIterator1"].run.done
    /\ walk["DBIterator1"].run.n = Cardinality(KeysOf(it_expect["DBIterator1"]))
    /\ walk["DBIterator1"].run.n = 1
    /\ Cardinality(KeysOf(store)) = 2

\* C30: every engine snapshot created by ReadOptions::snapshot(&db) is released:
\* once the ReadOptions, every iterator and the DB have been dropped, no
\* snapshot remains unreleased
C30_SnapshotsReleased ==
    (/\ wrap["ReadOptions"] = "dropped"
     /\ wrap["DB"] = "dropped"
     /\ \A i \in Iters : ~Alive(i))
        => nsnaps = 0

====
